---- MODULE Spec2Model ----
(***************************************************************************)
(* ursaproxy: the TTL cache (src/src/ursaproxy/cache.py), the fetch        *)
(* gateway (fetcher.py) and the handlers that glue them together           *)
(* (__init__.py), as a state machine.                                      *)
(*                                                                         *)
(* The store is Python's dict: a mapping that iterates in insertion order. *)
(* It is modelled as a sequence of entries [k, v, ts], one per key, in     *)
(* insertion order; assigning to a key that is present keeps its place,    *)
(* a new key goes to the end, a pop closes the gap.                        *)
(***************************************************************************)
EXTENDS Integers, Sequences, FiniteSets, TLC

\* ------------------------------------------------------------------ bounds

\* The clock (time()) runs over 0..MaxTime.
MaxTime == 1
\* The free driver constructs Cache(max_size) for max_size in 0..MaxCap and calls
\* get and set with any key, value and TTL.
MaxCap == 2
\* The filling driver constructs Cache(SmallCap) and Cache(BigCap) and writes new
\* keys one after the other: BigCap is large enough for len // 10 to exceed 1.
SmallCap == 3
BigCap == 20

\* One key more than the largest capacity, so that a full store meets a new key.
Keys == 1..(MaxCap + 1)
\* TTLs passed to get: 0 (never fresh) up to the longest age the clock allows.
TTLs == 0..MaxTime
MaxSizes == 0..MaxCap
\* The capacities of the filling driver: those the free driver does not cover.
BigSizes == {SmallCap, BigCap} \ MaxSizes
\* The filling driver stops after two keys more than the capacity.
FillKeys == 1..(BigCap + 2)

\* Payloads are opaque to the cache; "" is the empty (falsy) string.
Values == {"", "a"}

\* Python's None: what get returns for "absent".
None == "None"

VARIABLES
    now,        \* the value time() returns
    data,       \* Cache._data, in insertion order
    max_size,   \* Cache._max_size
    last,       \* the last call made on the cache, its arguments and its result
    settings,   \* app.state.settings of each application create_app built
    task,       \* the handler invocations: where each is, its request, its result
    stamp,      \* per cache key, the clock of the last set a handler made
    evicted,    \* the keys an eviction has popped since a handler last set them
    conf,       \* the last Settings(bearblog_url=...) construction and its outcome
    iso         \* the last _rfc822_to_iso(date_str) call and its result

vars == <<now, data, max_size, last, settings, task, stamp, evicted, conf, iso>>

\* The handlers' part of the state.
appvars == <<settings, task, stamp, evicted, conf, iso>>

\* ------------------------------------------------------------ Cache (pure)

\* The keys of a store.
KeysOf(d) == {d[i].k : i \in 1..Len(d)}

\* The place of key k in the store, 0 when it is not stored.
IndexOf(d, k) ==
    IF k \in KeysOf(d) THEN CHOOSE i \in 1..Len(d) : d[i].k = k ELSE 0

\* Variant of Pop: nothing is removed.
Pop_None(d, k) == d

\* dict.pop(key, None): the store without key k; a no-op when k is not stored.
Pop(d, k) == SelectSeq(d, LAMBDA e : e.k # k)

\* Variant of GetResult: the age is compared with <= instead of <.
GetResult_Le(d, k, ttl, t) ==
    LET i == IndexOf(d, k) IN
    IF i = 0 THEN None
    ELSE IF t - d[i].ts <= ttl THEN d[i].v
    ELSE None

\* Variant of GetResult: an entry expires one clock value early.
GetResult_Early(d, k, ttl, t) ==
    LET i == IndexOf(d, k) IN
    IF i = 0 THEN None
    ELSE IF t - d[i].ts < ttl - 1 THEN d[i].v
    ELSE None

\* Variant of GetResult: the age of the entry is not looked at.
GetResult_NoExpiry(d, k, ttl, t) ==
    LET i == IndexOf(d, k) IN
    IF i = 0 THEN None ELSE d[i].v

\* Variant of GetResult: a TTL of the cache is used, not the one passed in.
GetResult_FixedTtl(d, k, ttl, t) ==
    LET i == IndexOf(d, k) IN
    IF i = 0 THEN None
    ELSE IF t - d[i].ts < 1 THEN d[i].v
    ELSE None

\* Cache.get, the value returned.
GetResult(d, k, ttl, t) ==
    LET i == IndexOf(d, k) IN
    IF i = 0 THEN None
    ELSE IF t - d[i].ts < ttl THEN d[i].v
    ELSE None

\* Variant of GetStore: an expired entry is left in the store.
GetStore_NoPop(d, k, ttl, t) == d

\* Variant of GetStore: a get removes every entry that is expired under its TTL.
GetStore_Sweep(d, k, ttl, t) == SelectSeq(d, LAMBDA e : t - e.ts < ttl)

\* Variant of GetStore: a hit stamps the entry with the time of the read.
GetStore_Touch(d, k, ttl, t) ==
    LET i == IndexOf(d, k) IN
    IF i = 0 THEN d
    ELSE IF t - d[i].ts < ttl THEN [d EXCEPT ![i] = [k |-> k, v |-> d[i].v, ts |-> t]]
    ELSE Pop(d, k)

\* Cache.get, the store it leaves.
GetStore(d, k, ttl, t) ==
    LET i == IndexOf(d, k) IN
    IF i = 0 THEN d
    ELSE IF t - d[i].ts < ttl THEN d
    ELSE Pop(d, k)

\* The number of entries of d that sorted() puts before entry i: a stable sort
\* by timestamp keeps entries of equal timestamp in the store's order.
RankOf(d, i) ==
    Cardinality({j \in 1..Len(d) :
        \/ d[j].ts < d[i].ts
        \/ (d[j].ts = d[i].ts /\ j < i)})

\* Variant of SortedKeys: the keys in the store's order, not sorted.
SortedKeys_Unsorted(d) == [r \in 1..Len(d) |-> d[r].k]

\* sorted(self._data.keys(), key=lambda k: self._data[k][1])
SortedKeys(d) ==
    [r \in 1..Len(d) |-> d[CHOOSE i \in 1..Len(d) : RankOf(d, i) = r - 1].k]

\* Variant of EvictCount: len // 10 without `or 1`.
EvictCount_Floor(n) == n \div 10

\* Variant of EvictCount: one entry whatever the size.
EvictCount_One(n) == 1

\* len(sorted_keys) // 10 or 1
EvictCount(n) == IF n \div 10 # 0 THEN n \div 10 ELSE 1

\* sorted_keys[: n]: a slice past the end stops at the end.
Prefix(s, n) == SubSeq(s, 1, IF n < Len(s) THEN n ELSE Len(s))

\* Variant of EvictedKeys: the store is full only above max_size.
EvictedKeys_Gt(d, max) ==
    IF Len(d) > max
    THEN LET sk == SortedKeys(d)
             victims == Prefix(sk, EvictCount(Len(sk)))
         IN {victims[i] : i \in 1..Len(victims)}
    ELSE {}

\* The keys _evict_if_full pops from store d.
EvictedKeys(d, max) ==
    IF Len(d) >= max
    THEN LET sk == SortedKeys(d)
             victims == Prefix(sk, EvictCount(Len(sk)))
         IN {victims[i] : i \in 1..Len(victims)}
    ELSE {}

\* Cache._evict_if_full
EvictIfFull(d, max) ==
    LET gone == EvictedKeys(d, max) IN
    SelectSeq(d, LAMBDA e : e.k \notin gone)

\* Variant of Assign: a key that is stored keeps its timestamp.
Assign_KeepStamp(d, k, v, t) ==
    LET i == IndexOf(d, k) IN
    IF i = 0 THEN Append(d, [k |-> k, v |-> v, ts |-> t])
    ELSE [d EXCEPT ![i] = [k |-> k, v |-> v, ts |-> d[i].ts]]

\* Variant of Assign: every set adds an entry.
Assign_Append(d, k, v, t) == Append(d, [k |-> k, v |-> v, ts |-> t])

\* Variant of Assign: a key that is stored keeps its entry.
Assign_SetDefault(d, k, v, t) ==
    LET i == IndexOf(d, k) IN
    IF i = 0 THEN Append(d, [k |-> k, v |-> v, ts |-> t]) ELSE d

\* self._data[key] = (value, time())
Assign(d, k, v, t) ==
    LET i == IndexOf(d, k) IN
    IF i = 0 THEN Append(d, [k |-> k, v |-> v, ts |-> t])
    ELSE [d EXCEPT ![i] = [k |-> k, v |-> v, ts |-> t]]

\* Variant of SetStore: the eviction runs after the insertion.
SetStore_After(d, k, v, t, max) == EvictIfFull(Assign(d, k, v, t), max)

\* Variant of SetStore: a set that evicts stops after the eviction, and the
\* store is seen without the key being written.
SetStore_Torn(d, k, v, t, max) ==
    IF EvictedKeys(d, max) # {} THEN EvictIfFull(d, max) ELSE Assign(d, k, v, t)

\* Variant of SetStore: no eviction when the key written is stored already.
SetStore_KeepOnOverwrite(d, k, v, t, max) ==
    IF k \in KeysOf(d) THEN Assign(d, k, v, t) ELSE Assign(EvictIfFull(d, max), k, v, t)

\* Cache.set
SetStore(d, k, v, t, max) == Assign(EvictIfFull(d, max), k, v, t)

\* ------------------------------------------------- Settings, dates (pure)

\* A string is the sequence of its characters.
Slash == <<"/">>
Http == <<"h", "t", "t", "p", ":", "/", "/">>
Https == <<"h", "t", "t", "p", "s", ":", "/", "/">>

\* str.startswith(prefix)
StartsWith(v, prefix) ==
    Len(v) >= Len(prefix) /\ SubSeq(v, 1, Len(prefix)) = prefix

\* v.rstrip("/")
RECURSIVE RStrip(_)
RStrip(v) ==
    IF v # <<>> /\ v[Len(v)] = "/" THEN RStrip(SubSeq(v, 1, Len(v) - 1)) ELSE v

\* Variant of NormalizeUrl: the scheme is tested before the slashes are stripped.
NormalizeUrl_TestFirst(v) ==
    IF StartsWith(v, Http) \/ StartsWith(v, Https)
    THEN [ok |-> TRUE, bearblog_url |-> RStrip(v), error |-> "-"]
    ELSE [ok |-> FALSE, bearblog_url |-> <<>>,
          error |-> "bearblog_url must start with http:// or https://"]

\* Settings.normalize_url: the value stored, or the ValueError that pydantic
\* turns into a ValidationError.
NormalizeUrl(v) ==
    LET w == RStrip(v) IN
    IF ~(StartsWith(w, Http) \/ StartsWith(w, Https))
    THEN [ok |-> FALSE, bearblog_url |-> <<>>,
          error |-> "bearblog_url must start with http:// or https://"]
    ELSE [ok |-> TRUE, bearblog_url |-> w, error |-> "-"]

\* No Settings constructed yet.
NoConf == [raw |-> <<"-">>, ok |-> FALSE, bearblog_url |-> <<>>, error |-> "-"]

\* An RFC 822 date string: empty, not a date, or a date: its day and time and
\* its zone, "+0000" and "GMT" being UTC, "-0000" a time without a zone.
Stamps == {"2024-06-15T12:00:00", "1999-12-31T23:59:59"}
Zones == {"+0000", "GMT", "-0000", "+0200", "-0500"}
DateStrings ==
    [kind : {"empty"}, stamp : {"-"}, zone : {"-"}]
        \cup [kind : {"junk"}, stamp : {"not a date", "32 Foo 2024"}, zone : {"-"}]
        \cup [kind : {"date"}, stamp : Stamps, zone : Zones]

\* email.utils.parsedate_to_datetime: the datetime, or the exception it raises
\* for a string that is no date (ValueError; TypeError before Python 3.10).
ParseDate(d) ==
    IF d.kind # "date"
    THEN [raises |-> IF d.stamp = "not a date" THEN "ValueError" ELSE "TypeError",
          stamp |-> "-", offset |-> "-"]
    ELSE [raises |-> "-", stamp |-> d.stamp,
          offset |-> CASE d.zone \in {"+0000", "GMT"} -> "+00:00"
                       [] d.zone = "-0000" -> ""
                       [] d.zone = "+0200" -> "+02:00"
                       [] OTHER -> "-05:00"]

\* datetime.isoformat(): the day and time, then the offset of an aware datetime.
IsoFormat(day, offset) == IF offset = "" THEN <<day>> ELSE <<day, offset>>

\* str.replace("+00:00", "Z") on the parts of an ISO string.
ReplaceUtc(parts) ==
    [i \in 1..Len(parts) |-> IF parts[i] = "+00:00" THEN "Z" ELSE parts[i]]

\* datetime.now().isoformat() + "Z" at clock t.
NowIso(t) == <<<<"now", t>>, "Z">>

\* Variant of Rfc822ToIso: only ValueError is caught.
Rfc822ToIso_ValueErrorOnly(d, t) ==
    IF d.kind = "empty" THEN [raised |-> "-", out |-> NowIso(t)]
    ELSE LET dt == ParseDate(d) IN
         IF dt.raises = "ValueError" THEN [raised |-> "-", out |-> NowIso(t)]
         ELSE IF dt.raises # "-" THEN [raised |-> dt.raises, out |-> <<>>]
         ELSE [raised |-> "-", out |-> ReplaceUtc(IsoFormat(dt.stamp, dt.offset))]

\* _rfc822_to_iso
Rfc822ToIso(d, t) ==
    IF d.kind = "empty" THEN [raised |-> "-", out |-> NowIso(t)]
    ELSE LET dt == ParseDate(d) IN
         IF dt.raises \in {"ValueError", "TypeError"}
         THEN [raised |-> "-", out |-> NowIso(t)]
         ELSE IF dt.raises # "-" THEN [raised |-> dt.raises, out |-> <<>>]
         ELSE [raised |-> "-", out |-> ReplaceUtc(IsoFormat(dt.stamp, dt.offset))]

\* No conversion yet.
NoIso == [input |-> [kind |-> "-", stamp |-> "-", zone |-> "-"], at |-> 0,
          raised |-> "-", out |-> <<>>]

\* ------------------------------------------------- the cache-level driver

\* What `last` records of one call: the operation, its arguments, the value it
\* returned and the keys its eviction popped; fresh says that the clock has not
\* moved since the call; pre is the value written by the call right before it
\* when that was a set of the same key with the clock not moved since, None
\* otherwise.
Call(op, k, v, ttl, ret, gone) ==
    [op |-> op, k |-> k, v |-> v, ttl |-> ttl, ret |-> ret, gone |-> gone,
     fresh |-> TRUE,
     pre |-> IF last.op = "set" /\ last.k = k /\ last.fresh
             THEN last.v ELSE None]

NoCall ==
    [op |-> "none", k |-> 0, v |-> None, ttl |-> 0, ret |-> None, gone |-> {},
     fresh |-> FALSE, pre |-> None]

\* Cache(max_size): an empty store.
Init ==
    /\ now = 0
    /\ data = <<>>
    /\ max_size \in MaxSizes \cup BigSizes
    /\ last = NoCall
    /\ settings = <<>>
    /\ task = <<>>
    /\ stamp = <<>>
    /\ evicted = {}
    /\ conf = NoConf
    /\ iso = NoIso

\* time() moves on between two calls.
Tick ==
    /\ now < MaxTime
    /\ now' = now + 1
    /\ last' = [last EXCEPT !.fresh = FALSE]
    /\ UNCHANGED <<data, max_size, appvars>>

\* cache.get(k, ttl)
CacheGet(k, ttl) ==
    /\ data' = GetStore(data, k, ttl, now)
    /\ last' = Call("get", k, None, ttl, GetResult(data, k, ttl, now), {})
    /\ UNCHANGED <<now, max_size, appvars>>

\* Variant of CacheSet: a set on a full store fails.
CacheSet_FullRaises(k, v) ==
    /\ Len(data) < max_size
    /\ data' = SetStore(data, k, v, now, max_size)
    /\ last' = Call("set", k, v, 0, None, EvictedKeys(data, max_size))
    /\ UNCHANGED <<now, max_size, appvars>>

\* cache.set(k, v)
CacheSet(k, v) ==
    /\ data' = SetStore(data, k, v, now, max_size)
    /\ last' = Call("set", k, v, 0, None, EvictedKeys(data, max_size))
    /\ UNCHANGED <<now, max_size, appvars>>

\* The free driver: any call on a small cache.
Get ==
    /\ max_size \in MaxSizes
    /\ \E k \in Keys, ttl \in TTLs : CacheGet(k, ttl)

Set ==
    /\ max_size \in MaxSizes
    /\ \E k \in Keys, v \in Values : CacheSet(k, v)

\* The largest key written so far (the key a set writes is stored when it returns).
MaxKey(d) == IF d = <<>> THEN 0 ELSE CHOOSE k \in KeysOf(d) : \A j \in KeysOf(d) : j <= k

\* The filling driver: set on a key never written before.
Fill ==
    /\ max_size \in BigSizes
    /\ MaxKey(data) + 1 \in FillKeys
    /\ CacheSet(MaxKey(data) + 1, "a")

\* The filling driver: set again on the key that is first in the store, which
\* makes the first entry of the store its newest.
Refresh ==
    /\ max_size \in BigSizes
    /\ data # <<>>
    /\ data[1].ts < now
    /\ CacheSet(data[1].k, "a")

Next ==
    \/ Tick
    \/ Get
    \/ Set
    \/ Fill
    \/ Refresh

Spec == Init /\ [][Next]_vars

\* ------------------------------------------------------- the fetch gateway

\* What the upstream answers to one GET: a response with a status and a body, or
\* a transport failure (httpx.RequestError: connection refused, timeout, ...).
Statuses == {200, 302, 400, 403, 404, 500, 502}
FeedDocs == {"rss1", "rss2"}
HtmlDocs == {"blank", "h1"}
Transports == {"ConnectError", "ReadTimeout", "RemoteProtocolError"}

Responses(docs) ==
    [kind : {"http"}, status : Statuses, text : docs, err : {"-"}]
        \cup [kind : {"net"}, status : {0}, text : {"-"}, err : Transports]

\* Variant of Fetch: the test for >= 400 comes before the test for 404.
Fetch_404Late(r, not_found_msg) ==
    IF r.kind = "net"
    THEN [tag |-> "ServerError", msg |-> <<"Network error", r.err>>, text |-> "-"]
    ELSE IF r.status >= 500
    THEN [tag |-> "ServerError", msg |-> <<"Server error", r.status>>, text |-> "-"]
    ELSE IF r.status >= 400
    THEN [tag |-> "ServerError", msg |-> <<"HTTP error", r.status>>, text |-> "-"]
    ELSE IF r.status = 404
    THEN [tag |-> "NotFound", msg |-> <<not_found_msg>>, text |-> "-"]
    ELSE [tag |-> "Success", msg |-> <<>>, text |-> r.text]

\* Variant of Fetch: the status of the response is not looked at.
Fetch_ErrorsPass(r, not_found_msg) ==
    IF r.kind = "net"
    THEN [tag |-> "ServerError", msg |-> <<"Network error", r.err>>, text |-> "-"]
    ELSE [tag |-> "Success", msg |-> <<>>, text |-> r.text]

\* Variant of Fetch: httpx.RequestError is not caught and leaves _fetch as it is.
Fetch_NetEscapes(r, not_found_msg) ==
    IF r.kind = "net"
    THEN [tag |-> r.err, msg |-> <<r.err>>, text |-> "-"]
    ELSE IF r.status = 404
    THEN [tag |-> "NotFound", msg |-> <<not_found_msg>>, text |-> "-"]
    ELSE IF r.status >= 500
    THEN [tag |-> "ServerError", msg |-> <<"Server error", r.status>>, text |-> "-"]
    ELSE IF r.status >= 400
    THEN [tag |-> "ServerError", msg |-> <<"HTTP error", r.status>>, text |-> "-"]
    ELSE [tag |-> "Success", msg |-> <<>>, text |-> r.text]

\* _fetch: the outcome for one answer of the upstream.
Fetch(r, not_found_msg) ==
    IF r.kind = "net"
    THEN [tag |-> "ServerError", msg |-> <<"Network error", r.err>>, text |-> "-"]
    ELSE IF r.status = 404
    THEN [tag |-> "NotFound", msg |-> <<not_found_msg>>, text |-> "-"]
    ELSE IF r.status >= 500
    THEN [tag |-> "ServerError", msg |-> <<"Server error", r.status>>, text |-> "-"]
    ELSE IF r.status >= 400
    THEN [tag |-> "ServerError", msg |-> <<"HTTP error", r.status>>, text |-> "-"]
    ELSE [tag |-> "Success", msg |-> <<>>, text |-> r.text]

\* fetch_feed: feedparser.parse(response.text), a FeedParserDict, never empty.
Parse(text) == "feed:" \o text

\* The rendering of a fetched page: post.gmi applied to what extract_metadata and
\* html_to_gemtext return. A string; the page "blank" renders to the empty one.
Render(html) == IF html = "blank" THEN "" ELSE "# " \o html

\* ------------------------------------------------------------ the handlers

Kinds == {"feed", "post", "page"}
Slugs == {"x"}

\* Variant of CacheKey: the resource class is left out of the key.
CacheKey_SlugOnly(kind, slug) == IF kind = "feed" THEN "feed" ELSE slug

\* Variant of CacheKey: the slug is left out of the key.
CacheKey_KindOnly(kind, slug) == kind

\* cache_key: "feed" in _get_feed, f"{content_type}:{slug}" in _render_content.
CacheKey(kind, slug) == IF kind = "feed" THEN "feed" ELSE kind \o ":" \o slug

\* The requests a client can make: the feed routes carry no slug.
Requests ==
    [kind : {"feed"}, slug : {"-"}] \cup [kind : {"post", "page"}, slug : Slugs]

AppKeys == {CacheKey(q.kind, q.slug) : q \in Requests}

\* Variant of TtlOf: the two settings are taken for each other.
TtlOf_Swapped(a, kind) ==
    IF kind = "feed" THEN settings[a].cache_ttl_post
    ELSE settings[a].cache_ttl_feed

\* The TTL a handler passes to cache.get.
TtlOf(a, kind) ==
    IF kind = "feed" THEN settings[a].cache_ttl_feed
    ELSE settings[a].cache_ttl_post

\* The message of NotFoundError: fetch_feed's and fetch_html's not_found_msg.
NotFoundMsg(kind, slug) ==
    IF kind = "feed" THEN "Feed not found at /feed/?type=rss" ELSE "Page not found: " \o slug

\* Variant of Truthy: the handler tests `is not None`.
Truthy_NotNone(v) == v # None

\* Variant of Truthy: the handler never takes the value it got from the cache.
Truthy_Never(v) == FALSE

\* `if cached := cache.get(...)`: Python's truth value of what get returned.
Truthy(v) == v # None /\ v # ""

\* The values a configured TTL takes.
AppTTLs == 0..(MaxTime + 1)

\* The capacity of the cache the handlers share (a small stand-in for the
\* module's Cache() of 1000 entries).
AppCap == 2

\* No set yet.
NoStamp == 0 - 1

\* No answer of the upstream yet, no outcome of the gateway yet.
NoResp == [kind |-> "-", status |-> 0, err |-> "-"]
NoOut == [tag |-> "-", msg |-> <<>>]

\* A handler invocation: pc is where it is, got what cache.get returned, calls
\* the GETs it sent, resp the upstream's answer, out what the gateway made of
\* it, status, body and msg what the handler answered; raced says that another
\* invocation set the key while this one was waiting for the upstream.
Idle ==
    [pc |-> "idle", app |-> 0, kind |-> "-", slug |-> "-", key |-> "-",
     got |-> None, calls |-> 0, resp |-> NoResp, out |-> NoOut,
     status |-> 0, body |-> None, msg |-> <<>>, raced |-> FALSE]

\* create_app(settings) once for each settings[a]; the handler tasks of T idle.
AppInitWith(S, T) ==
    /\ now = 0
    /\ data = <<>>
    /\ max_size = AppCap
    /\ last = NoCall
    /\ settings \in S
    /\ task = [t \in T |-> Idle]
    /\ stamp = [k \in AppKeys |-> NoStamp]
    /\ evicted = {}
    /\ conf = NoConf
    /\ iso = NoIso

\* create_app(settings) for each application of A; the handler tasks of T idle.
AppInit(A, T) ==
    AppInitWith([A -> [cache_ttl_feed : AppTTLs, cache_ttl_post : AppTTLs]], T)

\* _get_feed / _render_content up to the first await: cache.get, and on a hit
\* the return; otherwise the GET of the gateway is sent and the task waits for
\* the answer.
Enter(t, a, q) ==
    LET key == CacheKey(q.kind, q.slug)
        ttl == TtlOf(a, q.kind)
        cached == GetResult(data, key, ttl, now)
        inv == [Idle EXCEPT !.app = a, !.kind = q.kind, !.slug = q.slug,
                            !.key = key, !.got = cached]
    IN  /\ task[t].pc \in {"idle", "done"}
        /\ data' = GetStore(data, key, ttl, now)
        /\ task' = [task EXCEPT ![t] =
                IF Truthy(cached)
                THEN [inv EXCEPT !.pc = "done", !.status = 20, !.body = cached]
                ELSE [inv EXCEPT !.pc = "awaiting", !.calls = 1]]
        /\ UNCHANGED <<now, max_size, last, settings, stamp, evicted, conf, iso>>

\* The upstreams two applications are configured with, and what each serves:
\* the documents of an upstream carry its address.
Upstreams == {"https://a.example", "https://b.example"}
DocsAt(u, docs) == {d \o " of " \o u : d \in docs}

\* The values an application can build from its own upstream.
OwnValues(a) ==
    {Parse(d) : d \in DocsAt(settings[a].bearblog_url, FeedDocs)}
        \cup {Render(d) : d \in DocsAt(settings[a].bearblog_url, HtmlDocs)}

\* Variant of Start: an application takes from the cache only what was built
\* from its own upstream, as if each create_app had a cache of its own.
Start_OwnUpstream(t, a, q) ==
    LET key == CacheKey(q.kind, q.slug)
        ttl == TtlOf(a, q.kind)
        found == GetResult(data, key, ttl, now)
        cached == IF found \in OwnValues(a) THEN found ELSE None
        inv == [Idle EXCEPT !.app = a, !.kind = q.kind, !.slug = q.slug,
                            !.key = key, !.got = cached]
    IN  /\ task[t].pc \in {"idle", "done"}
        /\ data' = GetStore(data, key, ttl, now)
        /\ task' = [task EXCEPT ![t] =
                IF Truthy(cached)
                THEN [inv EXCEPT !.pc = "done", !.status = 20, !.body = cached]
                ELSE [inv EXCEPT !.pc = "awaiting", !.calls = 1]]
        /\ UNCHANGED <<now, max_size, last, settings, stamp, evicted, conf, iso>>

\* Variant of Start: the cache is locked while a fetch is in flight.
Start_Exclusive(t, a, q) ==
    /\ \A u \in DOMAIN task : task[u].pc # "awaiting"
    /\ Enter(t, a, q)

\* A request arrives at application a: the handler runs up to its first await.
Start(t, a, q) == Enter(t, a, q)

\* Variant of Translate: the two failures are taken for each other.
Translate_Swapped(tag) == IF tag = "NotFound" THEN 40 ELSE 51

\* except NotFoundError: raise NotFound (51); except ServerError: raise
\* TemporaryFailure (40); any other exception leaves the handler (0).
Translate(tag) ==
    IF tag = "NotFound" THEN 51
    ELSE IF tag = "ServerError" THEN 40
    ELSE 0

\* Variant of Failed: the fetch is tried again.
Failed_Retry(inv, out) ==
    [inv EXCEPT !.pc = "awaiting", !.calls = 2, !.out = [tag |-> out.tag, msg |-> out.msg]]

\* The handler after the gateway raised: the failure translated, str(e) kept.
Failed(inv, out) ==
    [inv EXCEPT !.pc = "done", !.out = [tag |-> out.tag, msg |-> out.msg],
                !.status = Translate(out.tag), !.msg = out.msg]

\* The answer r of the upstream arrives: the handler runs from its await to its
\* end. On Success the value is built, cache.set stores it and it is returned;
\* NotFoundError becomes NotFound (51), ServerError TemporaryFailure (40).
Respond(t, r) ==
    LET inv == [task[t] EXCEPT !.resp = [kind |-> r.kind, status |-> r.status,
                                          err |-> r.err]]
        out == Fetch(r, NotFoundMsg(inv.kind, inv.slug))
        value == IF inv.kind = "feed" THEN Parse(out.text) ELSE Render(out.text)
    IN  /\ task[t].pc = "awaiting"
        /\ IF out.tag = "Success"
           THEN /\ data' = SetStore(data, inv.key, value, now, max_size)
                /\ stamp' = [stamp EXCEPT ![inv.key] = now]
                /\ evicted' = (evicted \cup EvictedKeys(data, max_size)) \ {inv.key}
                /\ task' = [u \in DOMAIN task |->
                       IF u = t
                       THEN [inv EXCEPT !.pc = "done", !.status = 20, !.body = value,
                                        !.out = [tag |-> out.tag, msg |-> out.msg]]
                       ELSE IF task[u].pc = "awaiting" /\ task[u].key = inv.key
                       THEN [task[u] EXCEPT !.raced = TRUE]
                       ELSE task[u]]
           ELSE /\ task' = [task EXCEPT ![t] = Failed(inv, out)]
                /\ UNCHANGED <<data, stamp, evicted>>
        /\ UNCHANGED <<now, max_size, last, settings, conf, iso>>

\* The handlers' steps, for requests of Q and answers of the upstream that
\* are drawn from F (feed) and from H (pages).
AppNextOn(Q, F, H) ==
    \/ Tick
    \/ \E t \in DOMAIN task, a \in DOMAIN settings, q \in Q : Start(t, a, q)
    \/ \E t \in DOMAIN task :
          \E r \in (IF task[t].kind = "feed" THEN F ELSE H) : Respond(t, r)

AppNext == AppNextOn(Requests, Responses(FeedDocs), Responses(HtmlDocs))

\* Sequential access: one application, one handler invocation at a time.
SpecSeq == AppInit({1}, {1}) /\ [][AppNext]_vars

\* Two applications built by create_app share the module's cache: the first is
\* configured with short TTLs, the second with TTLs longer than the clock runs.
TwoAppSettings ==
    {[a \in {1, 2} |->
        IF a = 1 THEN [cache_ttl_feed |-> 1, cache_ttl_post |-> 1]
        ELSE [cache_ttl_feed |-> MaxTime + 1, cache_ttl_post |-> MaxTime + 1]]}

SpecApps == AppInitWith(TwoAppSettings, {1}) /\ [][AppNext]_vars

\* Two applications configured with different upstreams, the first with a short
\* TTL: each fetch is answered by the upstream of the application that sent it.
SharedSettings ==
    {[a \in {1, 2} |->
        [bearblog_url |-> IF a = 1 THEN "https://a.example" ELSE "https://b.example",
         cache_ttl_feed |-> a,
         cache_ttl_post |-> a]]}

AnswersOf(a, kind) ==
    Responses(DocsAt(settings[a].bearblog_url,
                     IF kind = "feed" THEN FeedDocs ELSE HtmlDocs))

SharedNext ==
    \/ Tick
    \/ \E t \in DOMAIN task, a \in DOMAIN settings, q \in Requests : Start(t, a, q)
    \/ \E t \in {u \in DOMAIN task : task[u].pc = "awaiting"} :
          \E r \in AnswersOf(task[t].app, task[t].kind) : Respond(t, r)

SpecShared == AppInitWith(SharedSettings, {1}) /\ [][SharedNext]_vars

\* Concurrent access: one application, two handler invocations in flight at a
\* time, on the feed and on one post; the upstream answers with a document, with
\* one of three statuses or fails to connect.
ConcTasks == {1, 2}
ConcSettings == [{1} -> [cache_ttl_feed : {MaxTime}, cache_ttl_post : {MaxTime}]]
ConcRequests == {q \in Requests : q.kind \in {"feed", "post"}}
ConcStatuses == {200, 404, 500}
ConcResponses(docs) ==
    {r \in Responses(docs) :
        IF r.kind = "http" THEN r.status \in ConcStatuses ELSE r.err = "ConnectError"}

ConcNext == AppNextOn(ConcRequests, ConcResponses(FeedDocs), ConcResponses(HtmlDocs))

SpecConc == AppInitWith(ConcSettings, ConcTasks) /\ [][ConcNext]_vars

\* The GET that task t awaits comes back: client.get returns a response or
\* raises httpx.RequestError, at the latest when the client's timeout is over.
Answer(t) ==
    \E r \in (IF task[t].kind = "feed" THEN ConcResponses(FeedDocs)
               ELSE ConcResponses(HtmlDocs)) : Respond(t, r)

\* Concurrent access in which every GET sent is answered in the end.
SpecLive ==
    /\ AppInitWith(ConcSettings, ConcTasks)
    /\ [][ConcNext]_vars
    /\ \A t \in ConcTasks : WF_vars(Answer(t))

\* --------------------------------------------- settings and dates, driven

\* The trailing slashes an input carries: none up to MaxSlashes.
MaxSlashes == 2
Slashes(n) == [i \in 1..n |-> "/"]

\* Values given for bearblog_url: a scheme or none, a host and path or none,
\* trailing slashes.
Schemes ==
    {<<>>, Http, Https,
     <<"h", "t", "t", "p", ":", "/">>, <<"h", "t", "t", "p", ":">>,
     <<"H", "T", "T", "P", ":", "/", "/">>, <<"x">> \o Http,
     <<"g", "e", "m", "i", "n", "i", ":", "/", "/">>, <<"f", "t", "p", ":", "/", "/">>}
Hosts == {<<>>, <<"a">>, <<"a", "/", "b">>, <<"/", "a">>}
UrlInputs == {p \o h \o Slashes(n) : p \in Schemes, h \in Hosts, n \in 0..MaxSlashes}

\* No cache call, no request: only Settings are built and dates converted.
UtilInit ==
    /\ now = 0
    /\ data = <<>>
    /\ max_size = AppCap
    /\ last = NoCall
    /\ settings = <<>>
    /\ task = <<>>
    /\ stamp = <<>>
    /\ evicted = {}
    /\ conf = NoConf
    /\ iso = NoIso

\* Settings(bearblog_url=v, ...)
Construct(v) ==
    /\ conf' = [raw |-> v, ok |-> NormalizeUrl(v).ok,
                bearblog_url |-> NormalizeUrl(v).bearblog_url,
                error |-> NormalizeUrl(v).error]
    /\ UNCHANGED <<now, data, max_size, last, settings, task, stamp, evicted, iso>>

\* _rfc822_to_iso(d), as feed_route calls it for the feed and for each entry.
Convert(d) ==
    /\ iso' = [input |-> d, at |-> now, raised |-> Rfc822ToIso(d, now).raised,
               out |-> Rfc822ToIso(d, now).out]
    /\ UNCHANGED <<now, data, max_size, last, settings, task, stamp, evicted, conf>>

UtilNext ==
    \/ Tick
    \/ \E v \in UrlInputs : Construct(v)
    \/ \E d \in DateStrings : Convert(d)

SpecUtil == UtilInit /\ [][UtilNext]_vars

\* ------------------------------------------------------- steps of the cache

\* A step that is a call of get, of set.
GetStep == now' = now /\ last'.op = "get"
SetStep == now' = now /\ last'.op = "set"

\* The entry stored for key k (k is stored).
EntryOf(d, k) == d[IndexOf(d, k)]

Max2(a, b) == IF a >= b THEN a ELSE b

\* ------------------------------------------------------------------ claims

\* C1: a cache constructed with max_size >= 1 never holds more than max_size
\* entries, after every set and so in every reachable state.
C1_SizeBounded == max_size >= 1 => Len(data) <= max_size

\* A set that evicted and left the store exactly full.
C1_Witness ==
    /\ max_size >= 1
    /\ last.op = "set"
    /\ last.gone # {}
    /\ Len(data) = max_size

\* C2: get(k, t) returns the stored value if and only if k is stored with a
\* timestamp t0 such that now - t0 < t, and absent (None) otherwise, also when k
\* is not stored.
C2_GetFreshIff ==
    [][GetStep =>
        LET k == last'.k
            ttl == last'.ttl
        IN  /\ k \notin KeysOf(data) => last'.ret = None
            /\ k \in KeysOf(data) =>
                /\ (now - EntryOf(data, k).ts < ttl) =>
                       last'.ret = EntryOf(data, k).v
                /\ (now - EntryOf(data, k).ts >= ttl) => last'.ret = None]_vars

\* A get that found its key fresh and returned the stored value.
C2_Witness ==
    /\ last.op = "get"
    /\ last.ret \in Values
    /\ last.k \in KeysOf(data)
    /\ EntryOf(data, last.k).v = last.ret
    /\ last.fresh

\* C3: a get(k, t) issued right after set(k, v), the clock not moved and no
\* other call in between, returns v when t > 0 and absent when t = 0.
C3_GetAfterSet ==
    (last.op = "get" /\ last.pre # None) =>
        last.ret = (IF last.ttl > 0 THEN last.pre ELSE None)

\* A get with a positive TTL right after a set of the same key returned its value.
C3_Witness ==
    /\ last.op = "get"
    /\ last.pre = "a"
    /\ last.ttl > 0
    /\ last.ret = "a"

\* C4: the store holds at most one entry per key, and a set on a key replaces
\* the key's value and timestamp: after the set the one entry of the key holds
\* the value just written and the time of this set, so that a later get
\* returns that value or absent and never the value of an earlier set.
C4_OneEntryPerKey ==
    [][/\ Cardinality(KeysOf(data')) = Len(data')
       /\ SetStep =>
            /\ last'.k \in KeysOf(data')
            /\ EntryOf(data', last'.k).v = last'.v
            /\ EntryOf(data', last'.k).ts = now
            /\ \A i \in 1..Len(data') :
                   data'[i].k = last'.k => data'[i].v = last'.v
       /\ GetStep =>
            \/ last'.ret = None
            \/ /\ last'.k \in KeysOf(data)
               /\ \A i \in 1..Len(data) :
                      data[i].k = last'.k => data[i].v = last'.ret]_vars

\* A set that overwrote the different value written by the set right before it.
C4_Witness ==
    /\ last.op = "set"
    /\ last.pre # None
    /\ last.pre # last.v
    /\ EntryOf(data, last.k).v = last.v

\* C5: a get that finds its key expired removes the entry of that key and no
\* other; a get on a key that is not stored returns absent and leaves the store
\* as it is.
C5_ExpiredRemoved ==
    [][GetStep =>
        LET k == last'.k IN
        /\ (k \in KeysOf(data) /\ now - EntryOf(data, k).ts >= last'.ttl) =>
              /\ k \notin KeysOf(data')
              /\ data' = SelectSeq(data, LAMBDA e : e.k # k)
              /\ last'.ret = None
        /\ k \notin KeysOf(data) => (data' = data /\ last'.ret = None)]_vars

\* A get with TTL 0 right after a set of its key removed it and left the others.
C5_Witness ==
    /\ last.op = "get"
    /\ last.pre # None
    /\ last.ttl = 0
    /\ last.k \notin KeysOf(data)
    /\ data # <<>>

\* C6: a set on a store of size s >= max_size, s >= 1, evicts exactly
\* max(1, s // 10) entries before it inserts; a set on a store of size
\* s < max_size evicts none.
C6_EvictCount ==
    [][SetStep =>
        LET s == Len(data)
            gone == last'.gone
        IN  /\ gone \subseteq KeysOf(data)
            /\ KeysOf(data') = (KeysOf(data) \ gone) \cup {last'.k}
            /\ (s >= max_size /\ s >= 1) =>
                   Cardinality(gone) = Max2(1, s \div 10)
            /\ s < max_size => gone = {}]_vars

\* A set on a store of twenty entries or more evicted two of them.
C6_Witness ==
    /\ last.op = "set"
    /\ Cardinality(last.gone) >= 2

\* C7: every entry an eviction removes has a timestamp less than or equal to
\* the timestamp of every entry that survives the eviction.
C7_EvictOldest ==
    [][SetStep =>
        \A g \in last'.gone : \A j \in 1..Len(data) :
            data[j].k \notin last'.gone =>
                EntryOf(data, g).ts <= data[j].ts]_vars

\* An eviction that passed over the first entry of the store, which had been
\* written again, and removed a key written for the first time after it.
C7_Witness ==
    /\ max_size \in BigSizes
    /\ last.op = "set"
    /\ data # <<>>
    /\ \E g \in last.gone : data[1].k < g

\* C8: the key a set writes is stored when the set returns, whether or not the
\* set evicted, and a get of it with any positive TTL returns the value written;
\* the store then holds at most max_size entries (max_size >= 1).
C8_WrittenKeyStored ==
    [][SetStep =>
        /\ last'.k \in KeysOf(data')
        /\ \A ttl \in TTLs \ {0} :
               GetResult(data', last'.k, ttl, now') = last'.v
        /\ max_size >= 1 => Len(data') <= max_size]_vars

\* The set of key max_size + 1 on a cache of max_size entries: it evicted and
\* left max_size entries.
C8_Witness ==
    /\ max_size = SmallCap
    /\ last.op = "set"
    /\ last.k = SmallCap + 1
    /\ last.gone # {}
    /\ Len(data) = max_size

\* ----------------------------------------------------- steps of a handler

\* A step in which task t sends a GET to the upstream.
Issues(t) == task[t].pc # "awaiting" /\ task'[t].pc = "awaiting"

\* A step in which a request arrives at task t (a hit that answers as the
\* invocation before it did leaves the state as it is and is no step).
Arrives(t) == task[t].pc # "awaiting" /\ task'[t] # task[t]

\* A step in which task t answers from the cache.
Hits(t) == Arrives(t) /\ task'[t].pc = "done"

\* A step in which the upstream's answer reaches task t.
Resumes(t) == task[t].pc = "awaiting" /\ task'[t].pc # "awaiting"

\* A step in which task t's fetch succeeds, fails.
Succeeds(t) == Resumes(t) /\ task'[t].status = 20
FailedFetch(t) ==
    /\ task[t].pc = "awaiting"
    /\ task'[t].resp # NoResp
    /\ task'[t].resp.kind = "net" \/ task'[t].resp.status >= 400

\* The settings' TTL for the request of invocation inv, as configured.
ConfiguredTtl(inv) ==
    IF inv.kind = "feed" THEN settings[inv.app].cache_ttl_feed
    ELSE settings[inv.app].cache_ttl_post

\* The key the handlers document for the request of invocation inv.
DocumentedKey(inv) ==
    IF inv.kind = "feed" THEN "feed" ELSE inv.kind \o ":" \o inv.slug

C12_StoredIsReturned ==
    [][/\ \A t \in DOMAIN task :
            /\ Succeeds(t) =>
                 /\ DocumentedKey(task'[t]) \in KeysOf(data')
                 /\ EntryOf(data', DocumentedKey(task'[t])).v = task'[t].body
                 /\ EntryOf(data', DocumentedKey(task'[t])).ts = now
            /\ Hits(t) =>
                 /\ DocumentedKey(task'[t]) \in KeysOf(data)
                 /\ task'[t].body = EntryOf(data, DocumentedKey(task'[t])).v
                 /\ now - EntryOf(data, DocumentedKey(task'[t])).ts
                        < ConfiguredTtl(task'[t])
       /\ \A k \in KeysOf(data) \cap KeysOf(data') :
            EntryOf(data', k) # EntryOf(data, k) =>
                \E t \in DOMAIN task : Succeeds(t) /\ DocumentedKey(task'[t]) = k]_vars

\* A request for the feed answered from the cache with the value stored there.
C12_Witness ==
    \E t \in DOMAIN task :
        /\ task[t].pc = "done"
        /\ task[t].kind = "feed"
        /\ task[t].calls = 0
        /\ task[t].body = Parse("rss2")
        /\ "feed" \in KeysOf(data)
        /\ EntryOf(data, "feed").v = task[t].body

C14_FailuresTranslated ==
    \A t \in DOMAIN task :
        task[t].pc = "done" =>
            /\ task[t].status \in {20, 40, 51}
            /\ task[t].out.tag = "NotFound" =>
                   (task[t].status = 51 /\ task[t].msg = task[t].out.msg)
            /\ task[t].out.tag = "ServerError" =>
                   (task[t].status = 40 /\ task[t].msg = task[t].out.msg)
            /\ task[t].status # 20 =>
                   (task[t].msg # <<>> /\ task[t].body = None)

\* The feed handler answered NotFound with the gateway's message.
C14_Witness ==
    \E t \in DOMAIN task :
        /\ task[t].pc = "done"
        /\ task[t].kind = "feed"
        /\ task[t].out.tag = "NotFound"
        /\ task[t].status = 51
        /\ task[t].msg = <<NotFoundMsg("feed", "-")>>

\* C15: the gateway's outcome is a function of the status of the response, the
\* same for the feed and for a page: 404 gives NotFound with the caller's
\* message; 500 and above gives ServerError with the status in its message; any
\* other status from 400 gives ServerError with the status in its message; a
\* status below 400 gives Success.
C15_StatusClassified ==
    \A t \in DOMAIN task :
        (task[t].pc = "done" /\ task[t].resp.kind = "http") =>
            LET st == task[t].resp.status
                out == task[t].out
            IN  /\ out.tag \in {"Success", "NotFound", "ServerError"}
                /\ st = 404 <=> out.tag = "NotFound"
                /\ st < 400 <=> out.tag = "Success"
                /\ (st >= 400 /\ st # 404) <=> out.tag = "ServerError"
                /\ st = 404 =>
                       out.msg = <<NotFoundMsg(task[t].kind, task[t].slug)>>
                /\ (st >= 400 /\ st # 404) =>
                       (Len(out.msg) = 2 /\ out.msg[2] = st)

\* The fetch of a post answered with 403 gave ServerError "HTTP error 403".
C15_Witness ==
    \E t \in DOMAIN task :
        /\ task[t].pc = "done"
        /\ task[t].kind = "post"
        /\ task[t].resp.status = 403
        /\ task[t].out = [tag |-> "ServerError", msg |-> <<"HTTP error", 403>>]
        /\ task[t].status = 40

\* C16: a transport failure of the outbound request gives ServerError with a
\* description of the network failure, never NotFound, never Success and never
\* an exception of another kind; the handler answers TemporaryFailure.
C16_TransportIsServerError ==
    \A t \in DOMAIN task :
        task[t].resp.kind = "net" =>
            /\ task[t].pc = "done"
            /\ task[t].out.tag = "ServerError"
            /\ task[t].out.msg = <<"Network error", task[t].resp.err>>
            /\ task[t].status = 40
            /\ task[t].body = None

\* A malformed response (RemoteProtocolError) to the fetch of a page.
C16_Witness ==
    \E t \in DOMAIN task :
        /\ task[t].pc = "done"
        /\ task[t].kind = "page"
        /\ task[t].resp.err = "RemoteProtocolError"
        /\ task[t].out.tag = "ServerError"
        /\ task[t].status = 40

\* C17: an invocation sends at most one GET: none on a hit, one on a miss; the
\* answer to that GET ends the invocation, so that a failed fetch gives one
\* failure response after exactly one GET and is not tried again.
C17_OneRequestNoRetry ==
    [][\A t \in DOMAIN task :
        /\ task'[t].calls \in {0, 1}
        /\ task'[t].pc = "awaiting" => task'[t].calls = 1
        /\ Issues(t) => task'[t].resp = NoResp
        /\ Resumes(t) =>
             /\ task'[t].pc = "done"
             /\ task'[t].calls = 1
             /\ task[t].calls = 1
             /\ task'[t].resp # NoResp
        /\ (task'[t].pc = "done" /\ task'[t].status # 20) => task'[t].calls = 1]_vars

\* One GET for a page, answered 502, one TemporaryFailure.
C17_Witness ==
    \E t \in DOMAIN task :
        /\ task[t].pc = "done"
        /\ task[t].kind = "page"
        /\ task[t].resp.status = 502
        /\ task[t].status = 40
        /\ task[t].calls = 1

\* The keys a set on store d evicts and the store it leaves, element by element.
AfterSet(d, d2, k, v, t, max) ==
    LET gone == EvictedKeys(d, max) IN
    /\ KeysOf(d2) = (KeysOf(d) \ gone) \cup {k}
    /\ Cardinality(KeysOf(d2)) = Len(d2)
    /\ EntryOf(d2, k) = [k |-> k, v |-> v, ts |-> t]
    /\ \A j \in KeysOf(d2) \ {k} : EntryOf(d2, j) = EntryOf(d, j)

\* The store a get of key k leaves of store d.
AfterGet(d, d2, k, ttl, t) ==
    IF k \in KeysOf(d) /\ t - EntryOf(d, k).ts >= ttl
    THEN /\ KeysOf(d2) = KeysOf(d) \ {k}
         /\ Len(d2) = Len(d) - 1
         /\ \A j \in KeysOf(d2) : EntryOf(d2, j) = EntryOf(d, j)
    ELSE d2 = d

C19_LastWriteWins ==
    [][\A t \in DOMAIN task :
        /\ (Arrives(t) /\ ~Truthy(task'[t].got)) => Issues(t)
        /\ (Succeeds(t) /\ task[t].raced) =>
             /\ task[t].key \in KeysOf(data')
             /\ EntryOf(data', task[t].key).v = task'[t].body
             /\ EntryOf(data', task[t].key).ts = now
             /\ stamp'[task[t].key] = now]_vars

\* Two invocations missed on the feed, both fetched, both set: the entry holds
\* the document of the one that set last, stamped after the first set.
C19_Witness ==
    \E t, u \in DOMAIN task :
        /\ t # u
        /\ task[t].pc = "done" /\ task[u].pc = "done"
        /\ task[t].key = "feed" /\ task[u].key = "feed"
        /\ task[t].calls = 1 /\ task[u].calls = 1
        /\ task[t].status = 20 /\ task[u].status = 20
        /\ task[t].body # task[u].body
        /\ ~task[t].raced /\ task[u].raced
        /\ EntryOf(data, "feed").v = task[u].body
        /\ EntryOf(data, "feed").ts = now
        /\ now > 0

\* C20: while an invocation waits for the upstream, every other invocation can
\* start (its cache.get runs) and every waiting invocation can take its answer
\* (its cache.set runs).
C20_NoLockAcrossFetch ==
    (\E t \in DOMAIN task : task[t].pc = "awaiting") =>
        \A u \in DOMAIN task :
            IF task[u].pc = "awaiting"
            THEN \A r \in ConcResponses(IF task[u].kind = "feed"
                                        THEN FeedDocs ELSE HtmlDocs) :
                     ENABLED Respond(u, r)
            ELSE \A a \in DOMAIN settings, q \in ConcRequests :
                     ENABLED Start(u, a, q)

\* While an invocation waited, another set its key and then was answered from
\* the cache.
C20_Witness ==
    \E t, u \in DOMAIN task :
        /\ task[t].pc = "awaiting"
        /\ task[t].raced
        /\ task[u].pc = "done"
        /\ task[u].calls = 0
        /\ task[u].key = task[t].key

\* Slugs a request can carry, among them one that looks like a key.
SlugSamples == Slugs \cup {"feed"}

\* The keys the handlers document for the requests of the model.
DocumentedKeys ==
    {"feed"} \cup {kind \o ":" \o slug : kind \in {"post", "page"}, slug \in Slugs}

\* C21: for every slug the keys of the post, of the page and of the feed are
\* pairwise distinct; a request for one key leaves the entries of the other keys
\* as they are, unless its set evicts them; an entry changes only when an
\* invocation for its own key populates it, and a hit returns the entry of its
\* own key, so that a page is never answered with the rendering of the post of
\* the same slug.
C21_KeysIndependent ==
    [][/\ \A s1, s2 \in SlugSamples :
            /\ CacheKey("post", s1) # CacheKey("page", s2)
            /\ CacheKey("post", s1) # CacheKey("feed", "-")
            /\ CacheKey("page", s1) # CacheKey("feed", "-")
            /\ s1 # s2 => CacheKey("post", s1) # CacheKey("post", s2)
       /\ \A t \in DOMAIN task :
            LET own == DocumentedKey(task'[t])
                others == DocumentedKeys \ {own}
            IN  /\ Arrives(t) =>
                     \A k \in others :
                         /\ k \in KeysOf(data) <=> k \in KeysOf(data')
                         /\ k \in KeysOf(data) => EntryOf(data', k) = EntryOf(data, k)
                /\ Succeeds(t) =>
                     \A k \in others \ EvictedKeys(data, max_size) :
                         /\ k \in KeysOf(data) <=> k \in KeysOf(data')
                         /\ k \in KeysOf(data) => EntryOf(data', k) = EntryOf(data, k)
                /\ Hits(t) =>
                     /\ own \in KeysOf(data)
                     /\ task'[t].body = EntryOf(data, own).v
       /\ \A k \in KeysOf(data') :
            (k \notin KeysOf(data) \/ EntryOf(data', k) # EntryOf(data, k)) =>
                \E t \in DOMAIN task : Succeeds(t) /\ DocumentedKey(task'[t]) = k]_vars

\* The page x was answered from its own entry while the post x is stored too,
\* written at another time.
C21_Witness ==
    \E t \in DOMAIN task :
        /\ task[t].pc = "done"
        /\ task[t].kind = "page"
        /\ task[t].calls = 0
        /\ "page:x" \in KeysOf(data)
        /\ "post:x" \in KeysOf(data)
        /\ task[t].body = EntryOf(data, "page:x").v
        /\ EntryOf(data, "post:x").ts # EntryOf(data, "page:x").ts

\* C22: the cache never fails: in every reachable state get is enabled for a
\* key written first and for a key never written, with every TTL >= 0, and, on
\* the caches of the free driver, set is enabled for these keys with every
\* value (on the caches being filled the sets are those of the driver); a set
\* leaves its key stored with the value given and the present time.
C22_CacheNeverFails ==
    /\ \A k \in {1, MaxKey(data) + 1}, ttl \in TTLs : ENABLED CacheGet(k, ttl)
    /\ max_size \in MaxSizes =>
        \A k \in {1, MaxKey(data) + 1}, v \in Values : ENABLED CacheSet(k, v)
    /\ (last.op = "set" /\ last.fresh) =>
        /\ last.k \in KeysOf(data)
        /\ EntryOf(data, last.k) = [k |-> last.k, v |-> last.v, ts |-> now]

\* A set on a full store: it evicted another key and stored its own.
C22_Witness ==
    /\ last.op = "set"
    /\ last.fresh
    /\ last.gone # {}
    /\ last.k \notin last.gone
    /\ Len(data) >= max_size
    /\ EntryOf(data, last.k).ts = now

\* C23: an entry holds a key, a value and a timestamp, no TTL: what a get
\* returns depends on the entry's timestamp, the present time and the TTL of
\* that call only, and after any get the entries left answer every TTL by their
\* age alone, so that an entry is fresh under a larger TTL and expired under a
\* smaller one.
C23_TtlPerCall ==
    [][/\ \A i \in 1..Len(data') : DOMAIN data'[i] = {"k", "v", "ts"}
       /\ GetStep =>
            /\ last'.ret =
                 (IF last'.k \in KeysOf(data)
                     /\ now - EntryOf(data, last'.k).ts < last'.ttl
                  THEN EntryOf(data, last'.k).v ELSE None)
            /\ \A k \in KeysOf(data'), ttl2 \in TTLs :
                 GetResult(data', k, ttl2, now) =
                     (IF now - EntryOf(data', k).ts < ttl2
                      THEN EntryOf(data', k).v ELSE None)]_vars

\* A get with a positive TTL returned the value of an entry that a get with
\* TTL 0 would find expired.
C23_Witness ==
    /\ last.op = "get"
    /\ last.fresh
    /\ last.ttl > 0
    /\ last.ret \in Values
    /\ last.k \in KeysOf(data)
    /\ now - EntryOf(data, last.k).ts < last.ttl
    /\ now - EntryOf(data, last.k).ts >= 0
    /\ GetResult(data, last.k, 0, now) = None

\* C26: an entry leaves the store only in a get of its own key that finds it
\* expired or in the eviction of a set on a full store; the clock moving on and
\* gets of other keys leave it where it is, so an expired entry nobody reads
\* stays stored and counts for the size.
C26_LazyExpiry ==
    [][/\ now' # now => data' = data
       /\ \A k \in KeysOf(data) \ KeysOf(data') :
            \/ /\ GetStep
               /\ last'.k = k
               /\ now - EntryOf(data, k).ts >= last'.ttl
            \/ /\ SetStep
               /\ k \in last'.gone
               /\ Len(data) >= max_size
       /\ GetStep =>
            \A k \in KeysOf(data) \ {last'.k} :
                /\ k \in KeysOf(data')
                /\ EntryOf(data', k) = EntryOf(data, k)]_vars

\* An entry older than every TTL the callers pass is still stored, in a full
\* store, after a get of another key.
C26_Witness ==
    /\ max_size >= 1
    /\ Len(data) = max_size
    /\ last.op = "get"
    /\ last.fresh
    /\ \E i \in 1..Len(data) :
        /\ data[i].k # last.k
        /\ \A ttl \in TTLs : now - data[i].ts >= ttl

\* C27: a get that returns a stored value leaves the store as it is, the
\* timestamp of the entry read included, so the entries the next set would
\* evict are those it would have evicted before the read.
C27_ReadsDoNotRefresh ==
    [][\A t \in DOMAIN task :
        (Arrives(t) /\ task'[t].got # None) =>
            /\ data' = data
            /\ task'[t].key \in KeysOf(data')
            /\ EntryOf(data', task'[t].key).ts = stamp[task'[t].key]
            /\ EvictedKeys(data', max_size) = EvictedKeys(data, max_size)]_vars

\* The entry a request was just answered from is older than another entry of
\* the full store and is the one the next set evicts.
C27_Witness ==
    \E t \in DOMAIN task :
        /\ task[t].pc = "done"
        /\ task[t].calls = 0
        /\ task[t].key \in KeysOf(data)
        /\ EntryOf(data, task[t].key).ts < now
        /\ Len(data) >= 2
        /\ \E j \in 1..Len(data) : data[j].ts > EntryOf(data, task[t].key).ts
        /\ task[t].key \in EvictedKeys(data, max_size)

\* C29 as stated: a set of a key that is stored, on a store of size
\* s >= max_size, evicts max(1, s // 10) oldest entries, leaves the key stored,
\* and leaves fewer entries than before.
C29_OverwriteShrinks ==
    [][(SetStep /\ last'.k \in KeysOf(data) /\ Len(data) >= max_size) =>
        /\ Cardinality(last'.gone) = Max2(1, Len(data) \div 10)
        /\ KeysOf(data') = (KeysOf(data) \ last'.gone) \cup {last'.k}
        /\ Len(data') < Len(data)]_vars

\* C29 as amended: the same, the store left with fewer entries than before
\* unless the key written is the only entry evicted, in which case it is
\* inserted again and the size stays.
C29_OverwriteEvicts ==
    [][(SetStep /\ last'.k \in KeysOf(data) /\ Len(data) >= max_size) =>
        /\ Cardinality(last'.gone) = Max2(1, Len(data) \div 10)
        /\ last'.gone \subseteq KeysOf(data)
        /\ KeysOf(data') = (KeysOf(data) \ last'.gone) \cup {last'.k}
        /\ Len(data') = Len(data) - Cardinality(last'.gone \ {last'.k})
        /\ last'.gone # {last'.k} => Len(data') < Len(data)
        /\ last'.gone = {last'.k} => Len(data') = Len(data)]_vars

\* A key written twice in a row in a full store: the second set evicted another
\* key and left the store below its capacity.
C29_Witness ==
    /\ last.op = "set"
    /\ last.pre # None
    /\ last.gone # {}
    /\ last.k \notin last.gone
    /\ Len(data) < max_size

\* C30: a get that finds its key expired under its TTL removes the entry; a get
\* of a key that is not stored returns absent under every TTL, also one under
\* which the entry removed would be fresh; and a key comes back only by a set
\* of that key.
C30_ShortTtlReadRemoves ==
    [][/\ \A t \in DOMAIN task :
            LET key == task'[t].key IN
            /\ (Arrives(t) /\ key \in KeysOf(data)
                 /\ now - EntryOf(data, key).ts >= ConfiguredTtl(task'[t])) =>
                   /\ key \notin KeysOf(data')
                   /\ task'[t].got = None
            /\ (Arrives(t) /\ key \notin KeysOf(data)) =>
                   /\ task'[t].got = None
                   /\ Issues(t)
                   /\ key \notin KeysOf(data')
       /\ \A k \in KeysOf(data') \ KeysOf(data) :
            \E t \in DOMAIN task : Succeeds(t) /\ task[t].key = k]_vars

\* The second application finds a key absent that was set less than its TTL
\* ago and was not evicted: a request of the first application, whose TTL is
\* shorter, has removed the entry.
C30_Witness ==
    \E t \in DOMAIN task :
        /\ task[t].pc = "awaiting"
        /\ task[t].app = 2
        /\ task[t].got = None
        /\ stamp[task[t].key] # NoStamp
        /\ now - stamp[task[t].key] < ConfiguredTtl(task[t])
        /\ task[t].key \notin evicted
        /\ task[t].key \notin KeysOf(data)

\* The value without its trailing slashes, said without rstrip: the prefix of v
\* that does not end with a slash and is followed by slashes only.
Stripped(v) ==
    LET m == CHOOSE m \in 0..Len(v) :
                 /\ \A i \in (m + 1)..Len(v) : v[i] = "/"
                 /\ m = 0 \/ v[m] # "/"
    IN  SubSeq(v, 1, m)

\* C24: Settings construction strips all trailing slashes of the upstream base
\* address first; it fails with a validation error if and only if the stripped
\* value does not start with http:// or https://; an accepted value is stored
\* stripped, without a trailing slash.
C24_UrlNormalized ==
    conf # NoConf =>
        LET w == Stripped(conf.raw) IN
        /\ conf.ok <=> (StartsWith(w, Http) \/ StartsWith(w, Https))
        /\ ~conf.ok =>
               conf.error = "bearblog_url must start with http:// or https://"
        /\ conf.ok =>
               /\ conf.bearblog_url = w
               /\ conf.bearblog_url[Len(conf.bearblog_url)] # "/"

\* An https address with two trailing slashes or more was accepted and stored
\* without them.
C24_Witness ==
    /\ conf.ok
    /\ Len(conf.raw) >= Len(conf.bearblog_url) + 2
    /\ conf.raw = conf.bearblog_url \o Slashes(Len(conf.raw) - Len(conf.bearblog_url))
    /\ StartsWith(conf.bearblog_url, Https)

\* C25: the date conversion never raises: for an empty or unparsable string it
\* returns the current time followed by Z, and for a parsable UTC date that
\* date's ISO form with +00:00 replaced by Z.
C25_DateNeverFails ==
    iso # NoIso =>
        /\ iso.raised = "-"
        /\ iso.out # <<>>
        /\ iso.input.kind \in {"empty", "junk"} =>
               iso.out = <<<<"now", iso.at>>, "Z">>
        /\ (iso.input.kind = "date" /\ iso.input.zone \in {"+0000", "GMT"}) =>
               iso.out = <<iso.input.stamp, "Z">>

\* A string that is no date, for which the parser raises TypeError, converted
\* to the current time.
C25_Witness ==
    /\ iso.input.kind = "junk"
    /\ ParseDate(iso.input).raises = "TypeError"
    /\ iso.at = now
    /\ now > 0
    /\ iso.out[Len(iso.out)] = "Z"

\* C31: the applications built by create_app read and write one cache, under
\* keys made of the resource class and the slug only: whichever application a
\* request arrives at, its key is that of the class and the slug, and when
\* the store holds a non-empty entry for the key that is fresh under this
\* application's TTL the request is answered with that entry and sends no
\* GET, whatever upstream the entry was built from.
C31_SharedAcrossInstances ==
    [][\A t \in DOMAIN task :
        Arrives(t) =>
            LET inv == task'[t]
                key == DocumentedKey(inv)
            IN  /\ inv.key = key
                /\ (/\ key \in KeysOf(data)
                    /\ now - EntryOf(data, key).ts < ConfiguredTtl(inv)
                    /\ EntryOf(data, key).v # "") =>
                        /\ inv.pc = "done"
                        /\ inv.calls = 0
                        /\ inv.body = EntryOf(data, key).v
                        /\ data' = data]_vars

\* The second application answered a post from the cache with the rendering of
\* a document of the first application's upstream, which its own upstream does
\* not serve.
C31_Witness ==
    \E t \in DOMAIN task :
        /\ task[t].pc = "done"
        /\ task[t].app = 2
        /\ task[t].kind = "post"
        /\ task[t].calls = 0
        /\ settings[1].bearblog_url # settings[2].bearblog_url
        /\ task[t].body \in OwnValues(1)
        /\ task[t].body \notin OwnValues(2)

\* A request arrives at task t while the store holds an empty value for its
\* key that is fresh under the configured TTL.
ArrivesOnEmpty(t) ==
    /\ Arrives(t)
    /\ DocumentedKey(task'[t]) \in KeysOf(data)
    /\ EntryOf(data, DocumentedKey(task'[t])).v = ""
    /\ now - EntryOf(data, DocumentedKey(task'[t])).ts < ConfiguredTtl(task'[t])

\* The entry of task t's key after the step is the one a set of the value
\* returned writes at the present time.
Rewritten(t) ==
    /\ task'[t].key \in KeysOf(data')
    /\ EntryOf(data', task'[t].key) =
           [k |-> task'[t].key, v |-> task'[t].body, ts |-> now]

ArrivesOnExpired(t) ==
    /\ Arrives(t)
    /\ DocumentedKey(task'[t]) \in KeysOf(data)
    /\ now - EntryOf(data, DocumentedKey(task'[t])).ts >= ConfiguredTtl(task'[t])

\* C33 as stated: a request that finds its entry expired removes it and then
\* fetches; when the fetch of a request that got nothing from the cache fails,
\* the client gets the failure and no body, the store is left as it is, and
\* it holds no entry for the key.
C33_NoStaleIfError ==
    [][\A t \in DOMAIN task :
        /\ ArrivesOnExpired(t) =>
               /\ task'[t].got = None
               /\ Issues(t)
               /\ DocumentedKey(task'[t]) \notin KeysOf(data')
        /\ (FailedFetch(t) /\ task[t].got = None) =>
               /\ task'[t].pc = "done"
               /\ task'[t].status \in {40, 51}
               /\ task'[t].body = None
               /\ data' = data
               /\ task[t].key \notin KeysOf(data')]_vars

\* C33 as amended: the same, the store holding no entry for the key unless
\* another invocation set the key while this fetch was in flight.
C33_NoStaleIfErrorUnlessRaced ==
    [][\A t \in DOMAIN task :
        /\ ArrivesOnExpired(t) =>
               /\ task'[t].got = None
               /\ Issues(t)
               /\ DocumentedKey(task'[t]) \notin KeysOf(data')
        /\ (FailedFetch(t) /\ task[t].got = None) =>
               /\ task'[t].pc = "done"
               /\ task'[t].status \in {40, 51}
               /\ task'[t].body = None
               /\ data' = data
               /\ ~task[t].raced => task[t].key \notin KeysOf(data')]_vars

\* A key that was set and not evicted is gone, its TTL over, and the request
\* that removed it ended in TemporaryFailure without a body.
C33_Witness ==
    \E t \in DOMAIN task :
        /\ task[t].pc = "done"
        /\ task[t].status = 40
        /\ task[t].got = None
        /\ task[t].body = None
        /\ task[t].calls = 1
        /\ ~task[t].raced
        /\ stamp[task[t].key] # NoStamp
        /\ now - stamp[task[t].key] >= ConfiguredTtl(task[t])
        /\ task[t].key \notin evicted
        /\ task[t].key \notin KeysOf(data)

\* C34: a cache built with max_size = 0 holds at most one entry: a set on the
\* empty store evicts nothing and inserts, a set on the store of one entry
\* evicts that entry and inserts, and either leaves exactly the entry written.
C34_ZeroCapacityHoldsOne ==
    [][max_size = 0 =>
        /\ Len(data) <= 1
        /\ Len(data') <= 1
        /\ SetStep =>
               /\ last'.gone = KeysOf(data)
               /\ data' = <<[k |-> last'.k, v |-> last'.v, ts |-> now]>>]_vars

\* A cache of capacity 0 holds one entry, written by a set that evicted the
\* entry of another key.
C34_Witness ==
    /\ max_size = 0
    /\ last.op = "set"
    /\ last.gone # {}
    /\ last.k \notin last.gone
    /\ Len(data) = 1
    /\ data[1].k = last.k

\* The invocation of task t has ended in exactly one of a body, NotFound (51)
\* and TemporaryFailure (40).
Ended(t) ==
    /\ task[t].pc = "done"
    /\ \/ task[t].status = 20 /\ task[t].body # None /\ task[t].msg = <<>>
       \/ task[t].status = 51 /\ task[t].body = None /\ task[t].out.tag = "NotFound"
       \/ task[t].status = 40 /\ task[t].body = None /\ task[t].out.tag = "ServerError"

\* C35: every invocation ends: a request is answered from the cache in the
\* step it arrives in or waits for its GET, and when every GET is answered in
\* the end each waiting invocation ends in exactly one of a body, NotFound and
\* TemporaryFailure, whatever the other invocation in flight does.
C35_InvocationsTerminate ==
    /\ [](\A t \in ConcTasks : task[t].pc \in {"idle", "awaiting"} \/ Ended(t))
    /\ \A t \in ConcTasks : (task[t].pc = "awaiting") ~> Ended(t)

\* One invocation has ended in TemporaryFailure after its GET while the other
\* one, on the same key, still waits for its own.
C35_Witness ==
    \E t, u \in ConcTasks :
        /\ t # u
        /\ Ended(t)
        /\ task[t].status = 40
        /\ task[t].calls = 1
        /\ task[u].pc = "awaiting"
        /\ task[u].key = task[t].key

====
